---- MODULE Spec2Model ----
(***************************************************************************)
(* Model of the scrollback core of pconsole.Console (src/pconsole/         *)
(* console.py): the saved lines, the visible-line slots, the wrap width    *)
(* and row count, the scrolling index and the command call-back cursor.    *)
(* Strings are sequences of one-character strings.  Slot x of the Python   *)
(* list _visible_lines is visible_lines[x+1]; line indexes, character      *)
(* intervals, the scrolling index and the call-back index keep the         *)
(* 0-based values of the code.                                             *)
(***************************************************************************)
EXTENDS Integers, Sequences, FiniteSets, TLC

\* ------------------------------------------------------------------ bounds
MaxTextLen == 3
MaxSaved == 2
MaxWidth == 2
MaxLines == 2
MaxInputs == 2
MaxWrapLen == 4
MaxWrapWidth == 4

\* ------------------------------------------------------------- vocabulary
NL == "\n"
Chars == {"a", "b", NL}
White == "white"
Tinted == "tinted"
Colors == {Tinted}

\* The outputs of the handlers: position i holds its own letter or a newline,
\* so that a lost, repeated or moved character shows.
Letters == <<"a", "b", "c", "d", "e">>

RECURSIVE OutputsOfLen(_)
OutputsOfLen(n) ==
    IF n = 0 THEN {<<>>}
    ELSE {Append(s, c) : s \in OutputsOfLen(n - 1), c \in {Letters[n], NL}}

Texts == UNION {OutputsOfLen(n) : n \in 0..MaxTextLen}
Widths == 1..MaxWidth

\* The outputs wrapped on their own: every string over Chars.
RECURSIVE StringsOfLen(_)
StringsOfLen(n) ==
    IF n = 0 THEN {<<>>}
    ELSE {Append(s, c) : s \in StringsOfLen(n - 1), c \in Chars}

WrapTexts == UNION {StringsOfLen(n) : n \in 0..MaxWrapLen}
WrapWidths == 1..MaxWrapWidth

\* The prompts of self._consoles, in their order
Prompts == << <<"c", "s", "l", ">", " ">>, <<"p", "y", "t", ">", " ">>,
             <<"o", "s", "$", ">", " ">> >>
\* _ConsoleOutput(" ")
Blank == <<" ">>
\* What is typed into the entry (one line), and what a command prints
Commands == {<<>>, <<"a">>, <<"b">>}
Replies == {<<>>, << <<"o", "k">> >>}

VARIABLES
    savedlines,      \* self._savedlines: sequence of [text, color]
    visible_lines,   \* self._visible_lines: sequence of slots
    maxsize,         \* self._maxsize
    maxlines,        \* self._maxlines
    scrollingindex,  \* self._scrollingindex
    inputlines,      \* self._inputlines
    callbackindex,   \* self._callbackindex
    entry,           \* text of self.entry
    indicator,       \* self._indicator['text']
    err,             \* outcome of the last handler: "ok" or the exception raised
    last,            \* the last handler run and what it started from
    wrapped,         \* a wrapping on its own: output, width and the wrapped text
    running          \* per thread, where it is in _ConsoleOutput and its locals

vars == <<savedlines, visible_lines, maxsize, maxlines, scrollingindex,
          inputlines, callbackindex, entry, indicator, err, last, wrapped, running>>

\* ---------------------------------------------------------------- helpers
Min(a, b) == IF a < b THEN a ELSE b
Max(a, b) == IF a > b THEN a ELSE b

RECURSIVE Flatten(_)
Flatten(ss) == IF ss = <<>> THEN <<>> ELSE Head(ss) \o Flatten(Tail(ss))

HasNewline(s) == \E i \in 1..Len(s) : s[i] = NL
NewlineCount(s) == Cardinality({i \in 1..Len(s) : s[i] = NL})

\* output.split("\n")
RECURSIVE Split(_)
Split(s) ==
    IF ~HasNewline(s) THEN <<s>>
    ELSE LET i == CHOOSE k \in 1..Len(s) : s[k] = NL /\ \A j \in 1..(k - 1) : s[j] # NL
         IN  <<SubSeq(s, 1, i - 1)>> \o Split(SubSeq(s, i + 1, Len(s)))

\* len(range(0, stop, step)) for stop >= 0 and step # 0
RangeLen(stop, step) == IF step > 0 THEN (stop + step - 1) \div step ELSE 0

\* Chunk with the range stopped at the last full chunk: range(0, len(x)-w+1, w)
ChunkWholeOnly(x, w) ==
    [k \in 1..(Len(x) \div w) |-> SubSeq(x, (k - 1) * w + 1, k * w)]

\* [x[i:i+w] for i in range(0, len(x), w)]
Chunk(x, w) ==
    [k \in 1..RangeLen(Len(x), w) |-> SubSeq(x, (k - 1) * w + 1, Min(k * w, Len(x)))]

\* text = [[x[i:i+maxsize] for i in range(0, len(x), maxsize)] for x in output.split("\n")]
Wrap(output, w) == LET parts == Split(output) IN [g \in 1..Len(parts) |-> Chunk(parts[g], w)]

\* ------------------------------------------- lines.py (not under src/)
\* An OnscreenLine with no text: text '', default colour, line=None (coded
\* as -1) and no character interval.
NoLine == -1
EmptySlot == [text |-> <<>>, fg |-> White, lineIndex |-> NoLine, charInterval |-> <<>>]

\* Line Wrapper of one sub-string: chunks of at most w characters, a
\* sub-string shorter than w (the empty one included) is exactly one chunk.
LineChunks(x, w) ==
    IF Len(x) = 0 THEN << <<>> >>
    ELSE [k \in 1..((Len(x) + w - 1) \div w) |-> SubSeq(x, (k - 1) * w + 1, Min(k * w, Len(x)))]

\* Line Wrapper: split on newlines, then chunk every sub-string.
LineWrapper(text, w) == LET parts == Split(text) IN [g \in 1..Len(parts) |-> LineChunks(parts[g], w)]

\* The segments of logical entry number k, as slots, offsets cumulative.
EntrySlots(e, k, w) ==
    LET segs == Flatten(LineWrapper(e.text, w))
    IN  [i \in 1..Len(segs) |->
            LET start == Len(Flatten(SubSeq(segs, 1, i - 1)))
            IN  [text |-> segs[i], fg |-> e.color, lineIndex |-> k,
                 charInterval |-> <<start, start + Len(segs[i]) - 1>>]]

\* Every segment of the history, oldest first.
AllSlots(saved, w) == Flatten([k \in 1..Len(saved) |-> EntrySlots(saved[k], k - 1, w)])

totalSegmentCount(saved, w) == Len(AllSlots(saved, w))

\* The window of n slots whose slot 0 is offset segments behind the newest.
Window(saved, w, n, offset) ==
    LET all == AllSlots(saved, w)
    IN  [x \in 1..n |-> IF Len(all) - offset - (x - 1) >= 1
                        THEN all[Len(all) - offset - (x - 1)] ELSE EmptySlot]

\* redistribute(SavedLines, maxsize, maxlines, visible_lines)
redistribute(saved, w, n) == Window(saved, w, n, 0)

\* displace(SavedLines, maxsize, maxlines, visible_lines, index, sign):
\* the clamped new index and the window rendered at it.
displace(saved, w, n, index, sign) ==
    LET limit == Max(0, totalSegmentCount(saved, w) - n)
        moved == Max(0, Min(limit, index + sign))
    IN  [index |-> moved, vis |-> Window(saved, w, n, moved)]

\* ------------------------------------------------- Console._ConsoleOutput
\* previous = ''; for t in range(i): previous += discretized[t]
Previous(discretized, i) == Flatten(SubSeq(discretized, 1, i))

\* for x in range(maxlines-1, 0, -1): visible_lines[x] <- visible_lines[x-1]
ShiftDown(vis, maxl) ==
    [x \in 1..Len(vis) |-> IF x >= 2 /\ x <= maxl THEN vis[x - 1] ELSE vis[x]]

\* NewSlot with every character interval counted from 0
NewSlotFromZero(discretized, i, color, nsaved) ==
    [text |-> discretized[i + 1], fg |-> color, lineIndex |-> nsaved - 1,
     charInterval |-> <<0, Len(discretized[i + 1]) - 1>>]

\* NewSlot with the line number taken as len(self._savedlines)
NewSlotNextLine(discretized, i, color, nsaved) ==
    [text |-> discretized[i + 1], fg |-> color, lineIndex |-> nsaved,
     charInterval |-> <<Len(Previous(discretized, i)),
                        Len(Previous(discretized, i)) + Len(discretized[i + 1]) - 1>>]

\* The slot written at index 0 for chunk i (0-based) of discretized.
NewSlot(discretized, i, color, nsaved) ==
    [text |-> discretized[i + 1], fg |-> color, lineIndex |-> nsaved - 1,
     charInterval |-> <<Len(Previous(discretized, i)),
                        Len(Previous(discretized, i)) + Len(discretized[i + 1]) - 1>>]

\* for i in range(len(discretized)): shift, then fill slot 0
RECURSIVE AddChunks(_, _, _, _, _, _)
AddChunks(vis, discretized, i, color, nsaved, maxl) ==
    IF i >= Len(discretized) THEN vis
    ELSE LET shifted == ShiftDown(vis, maxl)
             filled == [shifted EXCEPT ![1] = NewSlot(discretized, i, color, nsaved)]
         IN  AddChunks(filled, discretized, i + 1, color, nsaved, maxl)

\* mode == 'add': for discretized in text: save the line, then add its chunks
RECURSIVE AddLines(_, _, _, _, _, _)
AddLines(saved, vis, text, g, color, maxl) ==
    IF g > Len(text) THEN [saved |-> saved, vis |-> vis, err |-> "ok"]
    ELSE LET discretized == text[g]
             saved1 == Append(saved, [text |-> Flatten(discretized), color |-> color])
             nsaved == Len(saved1)
             vis1 == AddChunks(vis, discretized, 0, color, nsaved, maxl)
         IN  AddLines(saved1, vis1, text, g + 1, color, maxl)

\* for i in range(n): visible_lines[i] <- discretized[n - i - 1]; the
\* character interval is not written.
EditChunks(vis, discretized, color, nsaved) ==
    LET n == Len(discretized)
    IN  [x \in 1..Len(vis) |->
            IF x <= n
            THEN [vis[x] EXCEPT !.text = discretized[n - (x - 1)], !.fg = color,
                                !.lineIndex = nsaved - 1]
            ELSE vis[x]]

\* mode == 'edit', after the last line is replaced: for discretized in text.
\* visible_lines[i] with i >= len(visible_lines) raises IndexError and ends
\* the call with the slots written so far.
RECURSIVE EditLines(_, _, _, _, _)
EditLines(saved, vis, text, g, color) ==
    IF g > Len(text) THEN [saved |-> saved, vis |-> vis, err |-> "ok"]
    ELSE LET discretized == text[g]
             nsaved == Len(saved)
             vis1 == EditChunks(vis, discretized, color, nsaved)
         IN  IF Len(discretized) > Len(vis)
             THEN [saved |-> saved, vis |-> vis1, err |-> "IndexError"]
             ELSE EditLines(saved, vis1, text, g + 1, color)

\* _ConsoleOutput(output, color, mode) with output a str
ConsoleOutput(saved, w, maxl, output, color, mode) ==
    LET vis1 == redistribute(saved, w, maxl)
        text == Wrap(output, w)
    IN  IF mode = "add" THEN AddLines(saved, vis1, text, 1, color, maxl)
        ELSE IF saved = <<>>
             THEN [saved |-> saved, vis |-> vis1, err |-> "IndexError"]
             ELSE LET saved1 == [saved EXCEPT ![Len(saved)] = [text |-> output, color |-> color]]
                  IN  EditLines(saved1, vis1, text, 1, color)

\* -------------------------------------------------------------- the state
\* last: the handler run last, its output, the number of saved lines and the
\* scrolling index it started from, and how many times in a row it has run
\* (wheel events; arrow-ups since the submission that reset the cursor), and
\* the call-back index and the entry text it started from.
NoCall ==
    [op |-> "none", text |-> <<>>, prelen |-> 0, prescroll |-> 0, streak |-> -1,
     precb |-> -1, preentry |-> <<>>]
Called(op, text, streak) ==
    [op |-> op, text |-> text, prelen |-> Len(savedlines), prescroll |-> scrollingindex,
     streak |-> streak, precb |-> callbackindex, preentry |-> entry]
NoWrap == [output |-> <<>>, width |-> 1, text |-> <<>>]

\* The thread of the event handlers and the thread of _versioncheck; a
\* thread outside _ConsoleOutput is idle.
Threads == {"main", "check"}
IdleThread == [pc |-> "idle", text |-> <<>>, g |-> 0, i |-> 0]
NoneRunning == [t \in Threads |-> IdleThread]

\* The longest run of wheel events that is counted
MaxRun == MaxSaved * MaxTextLen + 1

Init ==
    /\ savedlines = <<>>
    /\ maxsize \in Widths
    /\ maxlines \in 1..MaxLines
    /\ visible_lines = [x \in 1..maxlines |-> EmptySlot]
    /\ scrollingindex = 0
    /\ inputlines = <<>>
    /\ callbackindex = -1
    /\ entry = <<>>
    /\ indicator = Prompts[1]
    /\ err = "ok"
    /\ last = NoCall
    /\ wrapped = NoWrap
    /\ running = NoneRunning

NavUnchanged == UNCHANGED <<inputlines, callbackindex, entry, indicator, wrapped, running>>

\* _ConsoleOutput(output, color) in the default mode 'add'
AppendOutput(output, color) ==
    /\ Len(savedlines) + NewlineCount(output) + 1 <= MaxSaved
    /\ \E r \in {ConsoleOutput(savedlines, maxsize, maxlines, output, color, "add")} :
        /\ savedlines' = r.saved
        /\ visible_lines' = r.vis
        /\ err' = r.err
    /\ last' = Called("add", output, -1)
    /\ UNCHANGED <<maxsize, maxlines, scrollingindex>>
    /\ NavUnchanged

\* _ConsoleOutput(output, color, mode='edit')
EditOutput(output, color) ==
    /\ \E r \in {ConsoleOutput(savedlines, maxsize, maxlines, output, color, "edit")} :
        /\ savedlines' = r.saved
        /\ visible_lines' = r.vis
        /\ err' = r.err
    /\ last' = Called("edit", output, -1)
    /\ UNCHANGED <<maxsize, maxlines, scrollingindex>>
    /\ NavUnchanged

\* _ConsoleOutput(None): returns after the redistribution
NoOutput ==
    /\ visible_lines' = redistribute(savedlines, maxsize, maxlines)
    /\ err' = "ok"
    /\ last' = Called("noout", <<>>, -1)
    /\ UNCHANGED <<savedlines, maxsize, maxlines, scrollingindex>>
    /\ NavUnchanged

\* Sign with the exponent int(direction): wheel_up moves to the newer side
SignSwapped(direction) == IF direction THEN -1 ELSE 1

\* sign = (-1)**int(direction+1)
Sign(direction) == IF direction THEN 1 ELSE -1

\* _scroll(direction): wheel_up is direction True, wheel_down is False
Scroll(direction) ==
    /\ \E r \in {displace(savedlines, maxsize, maxlines, scrollingindex, Sign(direction))} :
        /\ scrollingindex' = r.index
        /\ visible_lines' = r.vis
    /\ err' = "ok"
    /\ \E op \in {IF direction THEN "older" ELSE "newer"} :
        last' = Called(op, <<>>, IF last.op = op THEN Min(last.streak + 1, MaxRun) ELSE 1)
    /\ UNCHANGED <<savedlines, maxsize, maxlines>>
    /\ NavUnchanged

\* UpdateRes without the reset of the scrolling index
UpdateResKeepsScroll(width) ==
    /\ maxsize' = width
    /\ maxlines' = maxlines
    /\ visible_lines' = redistribute(savedlines, maxsize', maxlines')
    /\ scrollingindex' = scrollingindex
    /\ err' = "ok"
    /\ last' = Called("resize", <<>>, -1)
    /\ UNCHANGED savedlines
    /\ UNCHANGED <<inputlines, callbackindex, entry, indicator, wrapped, running>>

\* _update_res(): _recomputeFrame gives the new width; the row count is
\* computed from _framesize[1] and _textscale, which no handler changes.
UpdateRes(width) ==
    /\ maxsize' = width
    /\ maxlines' = maxlines
    /\ visible_lines' = redistribute(savedlines, maxsize', maxlines')
    /\ scrollingindex' = 0
    /\ err' = "ok"
    /\ last' = Called("resize", <<>>, -1)
    /\ UNCHANGED savedlines
    /\ NavUnchanged

\* The scrollback with outputs added, scrolled and resized.
Next ==
    \/ \E output \in Texts, color \in Colors : AppendOutput(output, color)
    \/ NoOutput
    \/ \E direction \in BOOLEAN : Scroll(direction)
    \/ \E width \in Widths : UpdateRes(width)

Spec == Init /\ [][Next]_vars

\* The same with the last output edited as well.
EditNext ==
    \/ \E output \in Texts, color \in Colors : AppendOutput(output, color)
    \/ \E output \in Texts, color \in Colors : EditOutput(output, color)
    \/ NoOutput
    \/ \E direction \in BOOLEAN : Scroll(direction)
    \/ \E width \in Widths : UpdateRes(width)

EditSpec == Init /\ [][EditNext]_vars

\* ------------------------------------------------- the wrapping on its own
\* Lines 249-252 applied to one output under one width: the initial state
\* draws the output and the width, the step wraps it.
WrapInit ==
    /\ savedlines = <<>>
    /\ maxsize \in WrapWidths
    /\ maxlines = 1
    /\ visible_lines = [x \in 1..maxlines |-> EmptySlot]
    /\ scrollingindex = 0
    /\ inputlines = <<>>
    /\ callbackindex = -1
    /\ entry = <<>>
    /\ indicator = Prompts[1]
    /\ err = "ok"
    /\ last = NoCall
    /\ \E output \in WrapTexts : wrapped = [output |-> output, width |-> maxsize, text |-> <<>>]
    /\ running = NoneRunning

WrapOutput ==
    /\ last.op = "none"
    /\ wrapped' = [wrapped EXCEPT !.text = Wrap(wrapped.output, wrapped.width)]
    /\ last' = Called("wrap", wrapped.output, -1)
    /\ UNCHANGED <<savedlines, visible_lines, maxsize, maxlines, scrollingindex,
                   inputlines, callbackindex, entry, indicator, err, running>>

WrapNext == WrapOutput

WrapSpec == WrapInit /\ [][WrapNext]_vars

\* ------------------------------------------------ the command call-back
\* seq[k] of Python for a list of length Len(seq): negative k counts from the end.
InRange(seq, k) == k >= -Len(seq) /\ k < Len(seq)
At(seq, k) == IF k >= 0 THEN seq[k + 1] ELSE seq[Len(seq) + k + 1]

\* Reversed without the reversal: self._inputlines[:]
NotReversed(seq) == [i \in 1..Len(seq) |-> seq[i]]

\* self._inputlines[::-1]
Reversed(seq) == [i \in 1..Len(seq) |-> seq[Len(seq) - i + 1]]

\* Outputs added one after the other in the default colour.
RECURSIVE AddOutputs(_, _, _, _, _)
AddOutputs(saved, vis, w, maxl, outs) ==
    IF outs = <<>> THEN [saved |-> saved, vis |-> vis, err |-> "ok"]
    ELSE LET r == ConsoleOutput(saved, w, maxl, Head(outs), White, "add")
             saved1 == r.saved
             vis1 == r.vis
             rest == Tail(outs)
         IN  AddOutputs(saved1, vis1, w, maxl, rest)

\* Submit without the early return of an empty input
SubmitSavesEmpty(data, reply) ==
    /\ Len(inputlines) < MaxInputs
    /\ callbackindex' = -1
    /\ inputlines' = Append(inputlines, data)
    /\ entry' = <<>>
    /\ \E r \in {AddOutputs(savedlines, visible_lines, maxsize, maxlines,
                            <<Blank, indicator \o data>> \o reply)} :
           /\ savedlines' = r.saved
           /\ visible_lines' = r.vis
           /\ err' = r.err
    /\ last' = Called("submit", data, 0)
    /\ UNCHANGED <<maxsize, maxlines, scrollingindex, indicator, wrapped, running>>

\* __process(data): the early return, the cursor reset, the saved input,
\* the fresh entry, the blank line, the echo and what the command prints.
Submit(data, reply) ==
    IF Len(data) = 0
    THEN /\ last' = Called("submit", data, -1)
         /\ err' = "ok"
         /\ UNCHANGED <<savedlines, visible_lines, maxsize, maxlines, scrollingindex,
                        inputlines, callbackindex, entry, indicator, wrapped, running>>
    ELSE /\ Len(inputlines) < MaxInputs
         /\ callbackindex' = -1
         /\ inputlines' = Append(inputlines, data)
         /\ entry' = <<>>
         /\ \E r \in {AddOutputs(savedlines, visible_lines, maxsize, maxlines,
                                 <<Blank, indicator \o data>> \o reply)} :
                /\ savedlines' = r.saved
                /\ visible_lines' = r.vis
                /\ err' = r.err
         /\ last' = Called("submit", data, 0)
         /\ UNCHANGED <<maxsize, maxlines, scrollingindex, indicator, wrapped, running>>

\* CallBackUp without the test of line 322
CallBackUpUnguarded ==
    LET invertedInput == Reversed(inputlines)
    IN  /\ callbackindex' = callbackindex + 1
        /\ entry' = IF InRange(invertedInput, callbackindex + 1)
                    THEN At(invertedInput, callbackindex + 1) ELSE entry
        /\ err' = "ok"
        /\ last' = Called("up", <<>>, -1)
        /\ UNCHANGED <<savedlines, visible_lines, maxsize, maxlines, scrollingindex,
                       inputlines, indicator, wrapped, running>>

\* _callBack(True), arrow_up: an IndexError of the lookup is swallowed after
\* the index has moved.
CallBackUp ==
    LET invertedInput == Reversed(inputlines)
    IN  /\ IF callbackindex < Len(invertedInput)
           THEN /\ callbackindex' = callbackindex + 1
                /\ entry' = IF InRange(invertedInput, callbackindex + 1)
                            THEN At(invertedInput, callbackindex + 1) ELSE entry
           ELSE UNCHANGED <<callbackindex, entry>>
        /\ err' = "ok"
        /\ last' = Called("up", <<>>, IF last.streak >= 0 /\ last.op \in {"submit", "up"}
                                    THEN Min(last.streak + 1, MaxInputs + 1) ELSE -1)
        /\ UNCHANGED <<savedlines, visible_lines, maxsize, maxlines, scrollingindex,
                       inputlines, indicator, wrapped, running>>

\* _callBack(False), arrow_down
CallBackDown ==
    LET invertedInput == Reversed(inputlines)
        padded == <<(<<>>)>> \o invertedInput
    IN  /\ IF callbackindex >= 0
           THEN /\ callbackindex' = callbackindex - 1
                /\ entry' = IF InRange(padded, callbackindex - 1)
                            THEN At(padded, callbackindex - 1) ELSE entry
           ELSE UNCHANGED <<callbackindex, entry>>
        /\ err' = "ok"
        /\ last' = Called("down", <<>>, -1)
        /\ UNCHANGED <<savedlines, visible_lines, maxsize, maxlines, scrollingindex,
                       inputlines, indicator, wrapped, running>>

\* _switch_adr(): the next prompt, the first one after the last
SwitchAdr ==
    LET n == CHOOSE k \in 1..Len(Prompts) : Prompts[k] = indicator
    IN  /\ indicator' = IF n = Len(Prompts) THEN Prompts[1] ELSE Prompts[n + 1]
        /\ err' = "ok"
        /\ last' = Called("switch", <<>>, -1)
        /\ UNCHANGED <<savedlines, visible_lines, maxsize, maxlines, scrollingindex,
                       inputlines, callbackindex, entry, wrapped, running>>

NavNext ==
    \/ \E data \in Commands, reply \in Replies : Submit(data, reply)
    \/ CallBackUp
    \/ CallBackDown
    \/ SwitchAdr

\* The console created with the widest and tallest frame of the model.
NavInit == Init /\ maxsize = MaxWidth /\ maxlines = MaxLines

NavSpec == NavInit /\ [][NavNext]_vars

\* --------------------------------------------- the frame too narrow for text
\* _recomputeFrame: int(resframesize[0]/width) of a positive frame width and
\* a positive glyph width is 0 when the frame is narrower than one glyph.
NarrowWidths == 0..MaxWidth

\* range(0, len(x), maxsize) with maxsize = 0: ValueError, whatever len(x) is
RangeRaises(step) == step = 0

\* lines.py: the redistribution re-runs the Line Wrapper over every saved
\* line, and the Line Wrapper refuses a width <= 0 with ConfigError; with no
\* saved line nothing is wrapped.
redistributeRaises(saved, w) == w <= 0 /\ saved # <<>>

\* _ConsoleOutput(output, color) under any width of NarrowWidths: the
\* redistribution of line 241, then the wrapping of lines 249-252, then the
\* add loop.
OutputAtWidth(saved, vis, w, maxl, output, color) ==
    IF redistributeRaises(saved, w)
    THEN [saved |-> saved, vis |-> vis, err |-> "ConfigError"]
    ELSE IF RangeRaises(w)
         THEN [saved |-> saved, vis |-> redistribute(saved, w, maxl), err |-> "ValueError"]
         ELSE ConsoleOutput(saved, w, maxl, output, color, "add")

NarrowAppend(output, color) ==
    /\ Len(savedlines) + NewlineCount(output) + 1 <= MaxSaved
    /\ \E r \in {OutputAtWidth(savedlines, visible_lines, maxsize, maxlines, output, color)} :
        /\ savedlines' = r.saved
        /\ visible_lines' = r.vis
        /\ err' = r.err
    /\ last' = Called("add", output, -1)
    /\ UNCHANGED <<maxsize, maxlines, scrollingindex>>
    /\ NavUnchanged

\* _update_res(): _recomputeFrame stores the new width before the
\* redistribution runs; the reset of the scrolling index comes after it.
NarrowUpdateRes(width) ==
    /\ maxsize' = width
    /\ maxlines' = maxlines
    /\ IF redistributeRaises(savedlines, width)
       THEN /\ err' = "ConfigError"
            /\ UNCHANGED <<visible_lines, scrollingindex>>
       ELSE /\ visible_lines' = redistribute(savedlines, width, maxlines)
            /\ scrollingindex' = 0
            /\ err' = "ok"
    /\ last' = Called("resize", <<>>, -1)
    /\ UNCHANGED savedlines
    /\ NavUnchanged

NarrowInit ==
    /\ savedlines = <<>>
    /\ maxsize \in NarrowWidths
    /\ maxlines \in 1..MaxLines
    /\ visible_lines = [x \in 1..maxlines |-> EmptySlot]
    /\ scrollingindex = 0
    /\ inputlines = <<>>
    /\ callbackindex = -1
    /\ entry = <<>>
    /\ indicator = Prompts[1]
    /\ err = "ok"
    /\ last = NoCall
    /\ wrapped = NoWrap
    /\ running = NoneRunning

NarrowNext ==
    \/ \E output \in Texts, color \in Colors : NarrowAppend(output, color)
    \/ \E width \in NarrowWidths : NarrowUpdateRes(width)

NarrowSpec == NarrowInit /\ [][NarrowNext]_vars

\* ------------------------------------- _ConsoleOutput run by two threads
\* The thread started at lines 182-184 runs _versioncheck, which calls
\* _ConsoleOutput; the event handlers call it from the main thread. No lock
\* is taken, so the statements of the two calls interleave. A step is one
\* statement group of the add mode: the redistribution and the wrapping,
\* the save of a line, the shift of the slots, the fill of slot 0.

\* Vec4(1, 1, 1, 1) by default, Vec4(0.8, 0.7, 0, 1) in _versioncheck
ColorOf(t) == IF t = "main" THEN White ELSE Tinted

\* The lines a thread has still to save
ToSave(r) ==
    IF r.pc = "idle" THEN 0
    ELSE IF r.pc = "save" THEN Len(r.text) - r.g + 1
    ELSE Len(r.text) - r.g

\* for discretized in text: the next sub-line, or the return
AfterLine(r) ==
    IF r.g < Len(r.text) THEN [r EXCEPT !.pc = "save", !.g = r.g + 1, !.i = 0]
    ELSE IdleThread

ThreadUnchanged ==
    UNCHANGED <<maxsize, maxlines, scrollingindex, inputlines, callbackindex, entry,
                indicator, err, last, wrapped>>

\* lines 241-252: redistribute, split, chunk
BeginOutput(t, output) ==
    /\ running[t].pc = "idle"
    /\ \A u \in Threads \ {t} :
           Len(savedlines) + ToSave(running[u]) + NewlineCount(output) + 1 <= MaxSaved
    /\ visible_lines' = redistribute(savedlines, maxsize, maxlines)
    /\ running' = [running EXCEPT ![t] =
                      [pc |-> "save", text |-> Wrap(output, maxsize), g |-> 1, i |-> 0]]
    /\ UNCHANGED savedlines
    /\ ThreadUnchanged

\* line 255: self._savedlines.append((''.join(discretized), color))
SaveLine(t) ==
    LET r == running[t]
        discretized == r.text[r.g]
    IN  /\ r.pc = "save"
        /\ savedlines' = Append(savedlines, [text |-> Flatten(discretized), color |-> ColorOf(t)])
        /\ running' = [running EXCEPT ![t] =
                          IF Len(discretized) = 0 THEN AfterLine(r)
                          ELSE [r EXCEPT !.pc = "shift", !.i = 0]]
        /\ UNCHANGED visible_lines
        /\ ThreadUnchanged

\* lines 257-261: the shift of the slots
ShiftSlots(t) ==
    /\ running[t].pc = "shift"
    /\ visible_lines' = ShiftDown(visible_lines, maxlines)
    /\ running' = [running EXCEPT ![t].pc = "fill"]
    /\ UNCHANGED savedlines
    /\ ThreadUnchanged

\* lines 262-270: slot 0 gets the chunk, the colour, len(self._savedlines)-1
\* as read now, and the character interval
FillSlot(t) ==
    LET r == running[t]
        discretized == r.text[r.g]
    IN  /\ r.pc = "fill"
        /\ visible_lines' = [visible_lines EXCEPT
                                ![1] = NewSlot(discretized, r.i, ColorOf(t), Len(savedlines))]
        /\ running' = [running EXCEPT ![t] =
                          IF r.i + 1 < Len(discretized) THEN [r EXCEPT !.pc = "shift", !.i = r.i + 1]
                          ELSE AfterLine(r)]
        /\ UNCHANGED savedlines
        /\ ThreadUnchanged

\* aspectRatioChanged handled by the main thread between two of its calls
MainUpdateRes(width) ==
    /\ running["main"].pc = "idle"
    /\ UpdateRes(width)

ThreadNext ==
    \/ \E t \in Threads, output \in Texts : BeginOutput(t, output)
    \/ \E t \in Threads : SaveLine(t)
    \/ \E t \in Threads : ShiftSlots(t)
    \/ \E t \in Threads : FillSlot(t)
    \/ \E width \in Widths : MainUpdateRes(width)

ThreadSpec == Init /\ [][ThreadNext]_vars

\* ================================================================ claims
Total == totalSegmentCount(savedlines, maxsize)
Limit == Max(0, Total - maxlines)

\* The characters start..end (0-based, inclusive) of a text
Slice(text, interval) == SubSeq(text, interval[1] + 1, interval[2] + 1)

\* The slots the last 'add' call filled: those of the lines it saved
FilledByLast == {x \in 1..Len(visible_lines) : visible_lines[x].lineIndex >= last.prelen}

\* C1: after an append, the visible lines left by the shift-and-insert equal,
\* slot by slot, the redistribution of the saved lines under the same width
\* and row count.
FastPathEqualsRedistribution ==
    last.op = "add" => visible_lines = redistribute(savedlines, maxsize, maxlines)

\* C2: a run of more wheel_up events than there are segments leaves the
\* scrolling index at max(0, total - maxlines), and a run of as many
\* wheel_down events leaves it at 0.
ScrollClamp ==
    /\ (last.op = "older" /\ last.streak > Total) => scrollingindex = Limit
    /\ (last.op = "newer" /\ last.streak > Total) => scrollingindex = 0

ScrollClampReached ==
    /\ last.op = "older"
    /\ last.streak > Total
    /\ last.streak < MaxRun
    /\ Total > maxlines + 1
    /\ scrollingindex = Total - maxlines

\* C3: in every state, 0 <= scrolling index <= max(0, total - maxlines) for
\* the segments of the saved lines under the current width.
ScrollIndexInRange == 0 <= scrollingindex /\ scrollingindex <= Limit

EditOnEmptyIsEmptyHistoryError ==
    (last.op = "edit" /\ last.prelen = 0) =>
        /\ err = "EmptyHistoryError"
        /\ savedlines = <<>>
        /\ \A x \in 1..Len(visible_lines) : visible_lines[x] = EmptySlot

\* C6: an edit whose text wraps into n <= maxlines segments in total puts
\* segment i at slot n-1-i and leaves every slot from n on as it was (taken
\* from visible lines that show the newest saved lines).
EditOverwritesReversed ==
    [][\A output \in Texts, color \in Colors :
        LET segs == Flatten(Wrap(output, maxsize))
            n == Len(segs)
        IN  (/\ EditOutput(output, color)
             /\ savedlines # <<>>
             /\ visible_lines = redistribute(savedlines, maxsize, maxlines)
             /\ n <= maxlines) =>
                /\ \A i \in 0..(n - 1) : visible_lines'[n - 1 - i + 1].text = segs[i + 1]
                /\ \A x \in (n + 1)..maxlines : visible_lines'[x] = visible_lines[x]]_vars

\* C7: a text with k newlines wraps into k+1 groups and every group holds at
\* least one segment, an empty sub-line one empty segment.
WrapKeepsEmptyGroups ==
    last.op = "wrap" =>
        /\ Len(wrapped.text) = NewlineCount(wrapped.output) + 1
        /\ \A g \in 1..Len(wrapped.text) : Len(wrapped.text[g]) >= 1

\* C8: the segments of a text without newline are each at most maxsize long
\* and their concatenation in order is the text.
WrapReconstructs ==
    (last.op = "wrap" /\ ~HasNewline(wrapped.output)) =>
        /\ Len(wrapped.text) = 1
        /\ \A i \in 1..Len(wrapped.text[1]) : Len(wrapped.text[1][i]) <= wrapped.width
        /\ Flatten(wrapped.text[1]) = wrapped.output

WrapSplitsLongLine ==
    /\ last.op = "wrap"
    /\ ~HasNewline(wrapped.output)
    /\ Len(wrapped.text[1]) >= 2
    /\ Len(wrapped.text[1][Len(wrapped.text[1])]) < wrapped.width

ArrowUpReplaysNewestFirst ==
    (last.op = "up" /\ last.streak >= 1 /\ last.streak <= Len(inputlines)) =>
        /\ callbackindex = last.streak - 1
        /\ entry = inputlines[Len(inputlines) - last.streak + 1]

ArrowUpTwice ==
    /\ last.op = "up"
    /\ last.streak = 2
    /\ Len(inputlines) >= 2
    /\ inputlines[Len(inputlines)] # inputlines[Len(inputlines) - 1]
    /\ entry = inputlines[Len(inputlines) - 1]

\* C11: an arrow-down from call-back index c >= 0 leaves the index at c-1 and
\* shows the input at reverse-chronological position c-1 when c-1 >= 0, the
\* empty string when c-1 = -1.
ArrowDownShowsNewer ==
    (last.op = "down" /\ last.precb >= 0 /\ last.precb <= Len(inputlines)) =>
        /\ callbackindex = last.precb - 1
        /\ entry = IF last.precb - 1 >= 0
                   THEN Reversed(inputlines)[last.precb - 1 + 1]
                   ELSE <<>>

\* C12: an arrow-down at call-back index -1 leaves the index at -1 and the
\* entry empty, without an error.
ArrowDownAtNewestShowsEmpty ==
    (last.op = "down" /\ last.precb = -1) =>
        /\ callbackindex = -1
        /\ entry = <<>>
        /\ err = "ok"

\* C13: an arrow-up with the cursor on the oldest input (call-back index =
\* number of inputs - 1, the empty history with index -1 included) changes
\* neither the index nor the entry and raises nothing.
ArrowUpAtOldestIsNoOp ==
    (last.op = "up" /\ last.precb = Len(inputlines) - 1) =>
        /\ callbackindex = last.precb
        /\ entry = last.preentry
        /\ err = "ok"

\* C14: a non-empty submission appends exactly its text to the saved inputs
\* and sets the call-back index to -1 wherever the cursor was; an empty one
\* leaves the saved inputs, the index, the saved lines and the visible lines
\* as they were.
SubmitSavesInput ==
    [][\A data \in Commands, reply \in Replies :
        Submit(data, reply) =>
            IF Len(data) = 0
            THEN UNCHANGED <<inputlines, callbackindex, savedlines, visible_lines>>
            ELSE /\ inputlines' = Append(inputlines, data)
                 /\ callbackindex' = -1]_vars

SubmitWhileBrowsing ==
    /\ last.op = "submit"
    /\ Len(last.text) > 0
    /\ last.precb >= 0
    /\ inputlines[Len(inputlines)] = last.text
    /\ callbackindex = -1

\* C19: the call-back index stays within -1 .. number of saved inputs, and
\* is -1 right after every non-empty submission.
CallbackIndexInRange ==
    /\ callbackindex >= -1
    /\ callbackindex <= Len(inputlines)
    /\ (last.op = "submit" /\ Len(last.text) > 0) => callbackindex = -1

CallbackIndexAtUpperEnd ==
    /\ Len(inputlines) >= 1
    /\ callbackindex = Len(inputlines)
    /\ last.op = "up"

\* The segments of a wrapped text in the order they are produced, each with
\* the colour, the index of the line saved for its sub-line (the first one is
\* number prelen) and its character interval within that line.
RECURSIVE TaggedSegments(_, _, _, _)
TaggedSegments(text, g, prelen, color) ==
    IF g > Len(text) THEN <<>>
    ELSE [i \in 1..Len(text[g]) |->
            LET s == Len(Flatten(SubSeq(text[g], 1, i - 1)))
            IN  [text |-> text[g][i], fg |-> color, lineIndex |-> prelen + g - 1,
                 charInterval |-> <<s, s + Len(text[g][i]) - 1>>]]
         \o TaggedSegments(text, g + 1, prelen, color)

ViewportIsWindowAtScrollIndex ==
    (\A k \in 1..Len(savedlines) : savedlines[k].text # <<>>) =>
        visible_lines = Window(savedlines, maxsize, maxlines, scrollingindex)

\* C16: no append, edit of a non-empty list of saved lines, wheel event or
\* resize ends in an IndexError, an edit whose text wraps into more segments
\* than there are visible lines included.
NoIndexErrorSurfaces ==
    ~(last.op = "edit" /\ last.prelen = 0) => err # "IndexError"

\* C15: while the width is <= 0, every append and every resize ends with
\* ConfigError: none completes normally and none fails otherwise.
NonPositiveWidthIsConfigError ==
    (maxsize <= 0 /\ last.op \in {"add", "resize"}) => err = "ConfigError"

\* C17: the appends of the version-check thread and of the main thread never
\* interleave, so in every state each visible line that shows a saved line
\* carries that line's colour and the characters of that line at its
\* character interval: no slot is tagged with the line of another caller's
\* half-done append.
SlotsBelongToTheirLine ==
    \A x \in 1..Len(visible_lines) :
        LET slot == visible_lines[x]
        IN  slot.lineIndex # NoLine =>
                /\ slot.lineIndex < Len(savedlines)
                /\ slot.fg = savedlines[slot.lineIndex + 1].color
                /\ slot.text = Slice(savedlines[slot.lineIndex + 1].text, slot.charInterval)

\* A visible line that shows a saved line has a character interval (start,
\* end) with end - start + 1 = the length of its text, and the characters
\* start..end of the saved line number lineIndex are its text.
SlotsSelfConsistent ==
    \A x \in 1..Len(visible_lines) :
        LET slot == visible_lines[x]
        IN  slot.lineIndex # NoLine =>
                /\ Len(slot.charInterval) = 2
                /\ slot.charInterval[2] - slot.charInterval[1] + 1 = Len(slot.text)
                /\ slot.lineIndex < Len(savedlines)
                /\ slot.charInterval[1] >= 0
                /\ slot.charInterval[2] < Len(savedlines[slot.lineIndex + 1].text)
                /\ slot.text = Slice(savedlines[slot.lineIndex + 1].text, slot.charInterval)

\* C21: in every state reached by appends and edits each visible line that
\* shows a saved line is self-consistent; in particular an edit of a
\* non-empty list of saved lines keeps it so (taken for a text with no empty
\* sub-line, from saved lines none of which is empty and visible lines that
\* show the newest of them).
EditKeepsSlotsConsistent ==
    [][\A output \in Texts, color \in Colors :
        (/\ EditOutput(output, color)
         /\ savedlines # <<>>
         /\ \A k \in 1..Len(savedlines) : savedlines[k].text # <<>>
         /\ \A g \in 1..Len(Split(output)) : Split(output)[g] # <<>>
         /\ visible_lines = redistribute(savedlines, maxsize, maxlines)
         /\ SlotsSelfConsistent) => SlotsSelfConsistent']_vars

====
